---- MODULE Spec2Model ----
(***************************************************************************)
(* dilib: a dependency-injection container.  Injector.add registers a      *)
(* factory under a constructor and an optional InjectionToken;             *)
(* Injector.get resolves an identifier to an instance (memoized singleton  *)
(* by default, fresh when singleton is false) and hands out a forwarding   *)
(* Proxy while the StoreItem is initialized but has no instance yet.       *)
(*                                                                         *)
(* The JavaScript call stack is modelled explicitly: `stack` holds the     *)
(* frames of Injector.get, of the user factories and of the Proxy traps    *)
(* that are waiting for a callee; `ret` is the completion (return value or *)
(* thrown error) of the callee that has just finished.                     *)
(***************************************************************************)
EXTENDS Integers, Sequences, FiniteSets, TLC

\* ------------------------------------------------------------------ bounds
MaxItems == 2       \* Injector.add calls (StoreItems ever created)
MaxOps == 2         \* top-level Injector.get calls and deferred-reference uses
MaxDepth == 8       \* frames the call stack holds before RangeError
MaxThreads == 3     \* threads of the multi-threaded adaptation

\* ------------------------------------------------------------- identifiers
Ctors == {"A", "B"}
Tokens == {"T1", "T2"}
Ids == Ctors \cup Tokens
NoId == "none"

\* Key instanceof InjectionToken
IsInjectionToken(Key) == Key \in Tokens

\* InjectionToken._desc: both tokens were built with the same description
Desc(Key) == "MyToken"

\* `${Key}`: InjectionToken.toString() gives the description, a constructor
\* gives its own source text
StringOf(Key) == IF IsInjectionToken(Key) THEN Desc(Key) ELSE "class " \o Key

\* ------------------------------------------------------------------ values
\* A JavaScript value: undefined, null, a string, an object of the heap
\* (ref is its address) or a Proxy made by Injector.get (key is the Key the
\* traps close over, ref its address).
Val(kind, key, ref) == [kind |-> kind, key |-> key, ref |-> ref]
Undefined == Val("undefined", NoId, 0)
Null == Val("null", NoId, 0)
Str == Val("string", NoId, 0)
Obj(n) == Val("object", NoId, n)
Pxy(Key, n) == Val("proxy", Key, n)
True == Val("boolean", NoId, 1)

\* if (storeItem.instance): JavaScript truthiness of the instance slot
Truthy(v) == v.kind \in {"object", "proxy", "string"}

\* typeof target === 'object' (null and a Proxy of {} included)
TypeofObject(v) == v.kind \in {"object", "proxy", "null"}

\* GetOptions.params: absent, or a parameter object
NoParams == "undefined"
Params == {NoParams, "P1"}

\* -------------------------------------------------------------- completions
\* mode: "return" with val, or "throw" with err and msg.  fkey: the Key of
\* the deferred reference whose use the completion ends (NoId: none); fwd:
\* the heap object Reflect.get / Reflect.set acted on (0: none).
NoRet == [mode |-> "none", val |-> Undefined, err |-> "", msg |-> "", fwd |-> 0, fkey |-> NoId]
Return(v) == [NoRet EXCEPT !.mode = "return", !.val = v]
Forwarded(v, o, Key) == [NoRet EXCEPT !.mode = "return", !.val = v, !.fwd = o, !.fkey = Key]
Thrown(kind, msg) == [NoRet EXCEPT !.mode = "throw", !.err = kind, !.msg = msg]

\* a "not registered" error that does not say which identifier
NotRegisteredUnnamed(Key) == Thrown("NotRegistered", "dependency is not registered")

\* throw new Error(`${Key} is not registered`) / InjectionToken.find's
\* throw new Error(`Token ${this._desc} is not registered`)
NotRegistered(Key) ==
    Thrown("NotRegistered",
           IF IsInjectionToken(Key)
             THEN "Token " \o Desc(Key) \o " is not registered"
             ELSE StringOf(Key) \o " is not registered")

\* throw new Error(`DI: instance of ${Key} not found`)
InstanceNotFound(Key) ==
    Thrown("InstanceNotFound", "DI: instance of " \o StringOf(Key) \o " not found")

\* the engine's RangeError when a call finds the stack full
RangeError == Thrown("RangeError", "Maximum call stack size exceeded")

\* a property access on null or undefined, or Reflect.get / Reflect.set
\* called on a non-object
TypeError == Thrown("TypeError", "not an object")

\* ---------------------------------------------------------------- factories
\* The factories the application registers.  dep: the identifier the factory
\* resolves through the injector it is given (NoId: none); depSingleton: the
\* singleton option of that resolve; use: the factory reads a property of the
\* dependency while constructing; keep: the object it constructs keeps the
\* params the factory was given; result: what it returns.
Fac(dep, depSingleton, use, keep, result) ==
    [dep |-> dep, depSingleton |-> depSingleton, use |-> use, keep |-> keep,
     result |-> result]
FactoryDef(f) ==
    CASE f = "leaf" -> Fac(NoId, TRUE, FALSE, TRUE, "object")
      [] f = "str"  -> Fac(NoId, TRUE, FALSE, FALSE, "string")
      [] f = "null" -> Fac(NoId, TRUE, FALSE, FALSE, "null")
      [] f = "depB" -> Fac("B", TRUE, FALSE, FALSE, "object")
      [] f = "strB" -> Fac("B", TRUE, FALSE, FALSE, "string")
      [] f = "depA" -> Fac("A", TRUE, FALSE, FALSE, "object")
      [] f = "useA" -> Fac("A", TRUE, TRUE, FALSE, "object")
      [] f = "newA" -> Fac("A", FALSE, FALSE, FALSE, "object")

\* The calls of Injector.add the application may make: factory, key, token.
Reg(f, key, token) == [factory |-> f, key |-> key, token |-> token]
Registrations ==
    { Reg("leaf", "A", "T1"), Reg("str", "A", NoId),
      Reg("depB", "A", NoId), Reg("strB", "A", NoId),
      Reg("depA", "B", NoId), Reg("useA", "B", NoId),
      Reg("depA", "A", NoId),
      Reg("newA", "B", "T2"), Reg("null", "B", "T2") }

VARIABLES
    registry,   \* Injector._registry: identifier -> index of its StoreItem, 0 if absent
    items,      \* the StoreItem objects, in creation order
    heap,       \* the objects the factories have constructed
    stack,      \* the call stack, innermost frame last
    ret,        \* completion of the call that has just finished
    proxies,    \* the Proxy objects Injector.get has made: Key and dummy target {}
    got,        \* per identifier, since it was last registered: the values
                \* default-option gets have returned (vals) and how many (n)
    ncalls,     \* per StoreItem: factory invocations made by default-option gets
    nops,       \* gets and method calls the application has made
    threads,    \* multi-threaded adaptation: each thread's position in its get
    lock        \* multi-threaded adaptation: the per-StoreItem lock

vars == <<registry, items, heap, stack, ret, proxies, got, ncalls, nops, threads, lock>>

Top == stack[Len(stack)]
Pop == SubSeq(stack, 1, Len(stack) - 1)
Returned == stack # <<>> /\ ret.mode = "return"
\* the caller's frame, parked at pc while its callee runs
Park(pc, dep) == [stack EXCEPT ![Len(stack)].pc = pc, ![Len(stack)].dep = dep]
\* a call made on top of `base` finds the stack full
Overflows(base, n) == Len(base) + n > MaxDepth

\* ----------------------------------------------------------------- registry
\* a registry that compares tokens by their description
RegistryGetByDesc(reg, Key) ==
    IF Key \in Tokens /\ \E t \in Tokens : Desc(t) = Desc(Key) /\ reg[t] # 0
      THEN reg[CHOOSE t \in Tokens : Desc(t) = Desc(Key) /\ reg[t] # 0]
      ELSE reg[Key]

\* Map.prototype.get: keys are compared by reference identity
RegistryGet(reg, Key) == reg[Key]

\* an add that rebinds every identifier of the StoreItem it replaces
RegistrySetMerge(reg, key, token, n) ==
    [k \in Ids |-> IF k = key \/ (token # NoId /\ k = token)
                       \/ (reg[key] # 0 /\ reg[k] = reg[key])
                    THEN n ELSE reg[k]]

\* an add that empties the registry before it binds the new StoreItem
RegistrySetAlone(reg, key, token, n) ==
    [k \in Ids |-> IF k = key \/ (token # NoId /\ k = token) THEN n ELSE 0]

\* an add that forgets the token
RegistrySetKeyOnly(reg, key, token, n) ==
    [k \in Ids |-> IF k = key THEN n ELSE reg[k]]

\* the two this._registry.set calls of Injector.add
RegistrySet(reg, key, token, n) ==
    [k \in Ids |-> IF k = key \/ (token # NoId /\ k = token) THEN n ELSE reg[k]]

\* the storeItem literal of Injector.add
NewStoreItem(factory) ==
    [initialized |-> FALSE, factory |-> factory, instance |-> Null]

\* Key instanceof InjectionToken ? Key.find(this._registry) : this._registry.get(Key)
\* (0: no StoreItem; find throws and get's own check throws)
Lookup(Key) == RegistryGet(registry, Key)

\* a factory call that drops the params
FactoryParamsDropped(params) == NoParams

\* the second argument of storeItem.factory(this, params as Params)
FactoryParams(params) == params

\* ------------------------------------------------------------------- frames
Frame(fn, pc, Key, it, singleton, params, op, recv) ==
    [fn |-> fn, pc |-> pc, key |-> Key, item |-> it, singleton |-> singleton,
     params |-> params, dep |-> Undefined, op |-> op, recv |-> recv,
     \* what the frame saw on entry
     h0 |-> Len(heap),
     init0 |-> IF it = 0 THEN FALSE ELSE items[it].initialized,
     inst0 |-> IF it = 0 THEN Null ELSE items[it].instance,
     n0 |-> IF it = 0 THEN 0 ELSE ncalls[it]]

\* the Key of the outermost deferred reference in use on stack `base`
UseKey(base) ==
    IF \E j \in DOMAIN base : base[j].fn = "trap"
      THEN base[CHOOSE j \in DOMAIN base :
                  /\ base[j].fn = "trap"
                  /\ \A i \in 1..(j - 1) : base[i].fn # "trap"].key
      ELSE NoId

\* an error thrown on top of `base`: nothing in the injector, the traps or
\* the factories catches, so the whole stack unwinds
Throw(e, base) == stack' = <<>> /\ ret' = [e EXCEPT !.fkey = UseKey(base)]

\* a default-option get of Key returns v
Record(Key, v) == [got EXCEPT ![Key] = [vals |-> @.vals \cup {v}, n |-> @.n + 1]]

\* a get that tests the instance slot where it should test the flag
IsInitializedByInstance(it) == Truthy(items[it].instance)

\* a get that constructs again when no construction is in progress
IsInitializedWhileBuilding(it) ==
    /\ items[it].initialized
    /\ \/ Truthy(items[it].instance)
       \/ \E j \in DOMAIN stack : stack[j].pc = "L100" /\ stack[j].item = it

\* a get that never takes the initialized branch
IsInitializedNever(it) == FALSE

\* if (storeItem.initialized)
IsInitialized(it) == items[it].initialized

\* a get that does not set the flag before it invokes the factory
MarkInitializedLate(it) == items

\* a get that writes false where it should write true
MarkInitializedOff(it) == [items EXCEPT ![it].initialized = FALSE]

\* storeItem.initialized = true
MarkInitialized(it) == [items EXCEPT ![it].initialized = TRUE]

\* storeItem.factory(this, params): Injector.get waits at `pc` for the factory
CallFactory(base, pc, Key, it, singleton, params) ==
    IF Overflows(base, 2)
      THEN Throw(RangeError, base)
      ELSE /\ stack' = base \o << Frame("get", pc, Key, it, singleton, params, "", 0),
                                  Frame("factory", "start", NoId, it, singleton,
                                        FactoryParams(params), "", 0) >>
           /\ ret' = NoRet

\* Injector.get(Key, {singleton, params}) called on top of `base`, up to its
\* first return, throw or factory invocation
Get(Key, singleton, params, base) ==
    LET it == Lookup(Key) IN
    IF Overflows(base, 1) THEN
        /\ Throw(RangeError, base)
        /\ UNCHANGED <<items, proxies, got, ncalls>>
    ELSE IF it = 0 THEN
        /\ Throw(NotRegistered(Key), base)
        /\ UNCHANGED <<items, proxies, got, ncalls>>
    ELSE IF ~singleton THEN
        /\ CallFactory(base, "L67", Key, it, singleton, params)
        /\ UNCHANGED <<items, proxies, got, ncalls>>
    ELSE IF IsInitialized(it) THEN
        IF Truthy(items[it].instance) THEN
            /\ stack' = base
            /\ ret' = Return(items[it].instance)
            /\ got' = Record(Key, items[it].instance)
            /\ UNCHANGED <<items, proxies, ncalls>>
        ELSE
            /\ stack' = base
            /\ proxies' = Append(proxies, [key |-> Key, p |-> Undefined])
            /\ ret' = Return(Pxy(Key, Len(proxies) + 1))
            /\ got' = Record(Key, Pxy(Key, Len(proxies) + 1))
            /\ UNCHANGED <<items, ncalls>>
    ELSE
        /\ items' = MarkInitialized(it)
        /\ CallFactory(base, "L100", Key, it, singleton, params)
        /\ ncalls' = [ncalls EXCEPT ![it] = IF Overflows(base, 2) THEN @ ELSE @ + 1]
        /\ UNCHANGED <<proxies, got>>

\* a transient get that prefers the memoized instance
GetReturn67Memo ==
    /\ Returned /\ Top.fn = "get" /\ Top.pc = "L67"
    /\ stack' = Pop
    /\ ret' = Return(IF Truthy(items[Top.item].instance)
                       THEN items[Top.item].instance ELSE ret.val)
    /\ UNCHANGED <<registry, items, heap, proxies, got, ncalls, nops, threads, lock>>

\* a transient get that stores what it built in the StoreItem
GetReturn67Store ==
    /\ Returned /\ Top.fn = "get" /\ Top.pc = "L67"
    /\ items' = [items EXCEPT ![Top.item].initialized = TRUE,
                              ![Top.item].instance = ret.val]
    /\ stack' = Pop
    /\ ret' = Return(ret.val)
    /\ UNCHANGED <<registry, heap, proxies, got, ncalls, nops, threads, lock>>

\* return storeItem.factory(this, params) of the transient branch
GetReturn67 ==
    /\ Returned /\ Top.fn = "get" /\ Top.pc = "L67"
    /\ stack' = Pop
    /\ ret' = Return(ret.val)
    /\ UNCHANGED <<registry, items, heap, proxies, got, ncalls, nops, threads, lock>>

\* a get that stores the instance and clears the flag again
GetStore100Clear ==
    /\ Returned /\ Top.fn = "get" /\ Top.pc = "L100"
    /\ items' = [items EXCEPT ![Top.item].instance = ret.val,
                              ![Top.item].initialized = FALSE]
    /\ stack' = Pop
    /\ ret' = Return(ret.val)
    /\ got' = Record(Top.key, ret.val)
    /\ UNCHANGED <<registry, heap, proxies, ncalls, nops, threads, lock>>

\* storeItem.instance = <factory result>; return storeItem.instance
GetStore100 ==
    /\ Returned /\ Top.fn = "get" /\ Top.pc = "L100"
    /\ items' = [items EXCEPT ![Top.item].instance = ret.val]
    /\ stack' = Pop
    /\ ret' = Return(ret.val)
    /\ got' = Record(Top.key, ret.val)
    /\ UNCHANGED <<registry, heap, proxies, ncalls, nops, threads, lock>>

\* ---------------------------------------------------------------- factories
\* the factory's return statement: a new object, a string or null
Finish(depv) ==
    LET d == FactoryDef(items[Top.item].factory) IN
    CASE d.result = "object" ->
            /\ heap' = Append(heap, [by |-> Top.item,
                                     params |-> IF d.keep THEN Top.params
                                                          ELSE NoParams,
                                     dep |-> depv, p |-> Undefined])
            /\ stack' = Pop
            /\ ret' = Return(Obj(Len(heap) + 1))
      [] d.result = "string" ->
            /\ stack' = Pop /\ ret' = Return(Str) /\ UNCHANGED heap
      [] d.result = "null" ->
            /\ stack' = Pop /\ ret' = Return(Null) /\ UNCHANGED heap

\* a trap that hands params to the get it makes
TrapOptionsWithParams == [singleton |-> TRUE, params |-> "P1"]

\* injector.get(Key) as the traps call it: options = {}, so singleton is
\* true and params undefined
TrapOptions == [singleton |-> TRUE, params |-> NoParams]

\* a property access on Proxy number `recv` runs its get or set trap, whose
\* first statement is injector.get(Key) with default options
Trap(Key, op, recv, base) ==
    IF Overflows(base, 1)
      THEN /\ Throw(RangeError, Append(base, Frame("trap", "L80", Key, 0, TRUE, NoParams, op, recv)))
           /\ UNCHANGED <<items, proxies, got, ncalls>>
      ELSE Get(Key, TrapOptions.singleton, TrapOptions.params,
               Append(base, Frame("trap", "L80", Key, 0, TRUE, NoParams, op, recv)))

\* the factory body up to its dependency: injector.get(dep, {singleton})
FactoryStart ==
    /\ stack # <<>> /\ Top.fn = "factory" /\ Top.pc = "start"
    /\ LET d == FactoryDef(items[Top.item].factory) IN
       IF d.dep = NoId
         THEN Finish(Undefined) /\ UNCHANGED <<items, proxies, got, ncalls>>
         ELSE Get(d.dep, d.depSingleton, NoParams, Park("dep", Undefined))
              /\ UNCHANGED heap
    /\ UNCHANGED <<registry, nops, threads, lock>>

\* the factory after injector.get(dep) has returned: a constructor that uses
\* the dependency reads a property of it (through the get trap if it is a
\* deferred reference); then, or once that read has returned, the factory
\* returns
FactoryResume ==
    /\ Returned /\ Top.fn = "factory" /\ Top.pc \in {"dep", "used"}
    /\ LET d == FactoryDef(items[Top.item].factory)
           v == ret.val IN
       IF Top.pc = "used"
         THEN Finish(Top.dep) /\ UNCHANGED <<items, proxies, got, ncalls>>
       ELSE IF d.use /\ v.kind = "proxy"
         THEN Trap(v.key, "get", v.ref, Park("used", v)) /\ UNCHANGED heap
       ELSE IF d.use /\ v.kind \in {"null", "undefined"}
         THEN /\ Throw(TypeError, stack)
              /\ UNCHANGED <<heap, items, proxies, got, ncalls>>
       ELSE Finish(v) /\ UNCHANGED <<items, proxies, got, ncalls>>
    /\ UNCHANGED <<registry, nops, threads, lock>>

\* -------------------------------------------------------------- proxy traps
\* the trap after const target = injector.get(Key): the typeof check, then
\* Reflect.get(target, prop, receiver) / Reflect.set(target, prop, val, receiver).
\* A target that is itself a Proxy runs that Proxy's trap with the same
\* receiver.  Reflect.set on an ordinary object with another receiver defines
\* the data property on the receiver: the Proxy has no defineProperty trap, so
\* the value lands on its own dummy target {}.
TrapResume ==
    /\ Returned /\ Top.fn = "trap" /\ Top.pc \in {"L80", "L85"}
    /\ LET target == ret.val IN
       IF Top.pc = "L85" THEN
           \* return Reflect.get(...) / Reflect.set(...) of a Proxy target
           /\ stack' = Pop
           /\ ret' = ret
           /\ UNCHANGED <<heap, items, proxies, got, ncalls>>
       ELSE IF ~TypeofObject(target) THEN
           /\ Throw(InstanceNotFound(Top.key), stack)
           /\ UNCHANGED <<heap, items, proxies, got, ncalls>>
       ELSE IF target.kind = "proxy" THEN
           /\ Trap(target.key, Top.op, Top.recv, Park("L85", Undefined))
           /\ UNCHANGED heap
       ELSE IF target.kind = "null" THEN
           /\ Throw(TypeError, stack)
           /\ UNCHANGED <<heap, items, proxies, got, ncalls>>
       ELSE IF Top.op = "get" THEN
           /\ stack' = Pop
           /\ ret' = Forwarded(heap[target.ref].p, target.ref, Top.key)
           /\ UNCHANGED <<heap, items, proxies, got, ncalls>>
       ELSE
           /\ stack' = Pop
           /\ proxies' = [proxies EXCEPT ![Top.recv].p = Str]
           /\ ret' = Forwarded(True, target.ref, Top.key)
           /\ UNCHANGED <<heap, items, got, ncalls>>
    /\ UNCHANGED <<registry, nops, threads, lock>>

\* -------------------------------------------------------------- application
\* injector.add(factory, key, token)
Add(factory, key, token) ==
    /\ stack = <<>> /\ Len(items) < MaxItems
    /\ items' = Append(items, NewStoreItem(factory))
    /\ registry' = RegistrySet(registry, key, token, Len(items) + 1)
    /\ got' = [k \in Ids |-> IF k = key \/ k = token THEN [vals |-> {}, n |-> 0] ELSE got[k]]
    /\ ncalls' = Append(ncalls, 0)
    /\ UNCHANGED <<heap, stack, ret, proxies, nops, threads, lock>>

\* injector.get(Key, {singleton, params}) called by the application
TopGet(Key, singleton, params) ==
    /\ stack = <<>> /\ nops < MaxOps
    /\ nops' = nops + 1
    /\ Get(Key, singleton, params, <<>>)
    /\ UNCHANGED <<registry, heap, threads, lock>>

\* the application reads or writes a property of the deferred reference that
\* its last get returned
TopUse(op) ==
    /\ stack = <<>>
    /\ ret.mode = "return" /\ ret.val.kind = "proxy"
    /\ Trap(ret.val.key, op, ret.val.ref, <<>>)
    /\ UNCHANGED <<registry, heap, nops, threads, lock>>

\* a method of constructed object o reads or writes a property of the
\* deferred reference the object keeps as its dependency
TopUseDep(o, op) ==
    /\ stack = <<>> /\ nops < MaxOps
    /\ o \in DOMAIN heap /\ heap[o].dep.kind = "proxy"
    /\ nops' = nops + 1
    /\ Trap(heap[o].dep.key, op, heap[o].dep.ref, <<>>)
    /\ UNCHANGED <<registry, heap, threads, lock>>

Init ==
    /\ registry = [k \in Ids |-> 0]
    /\ items = <<>>
    /\ heap = <<>>
    /\ stack = <<>>
    /\ ret = NoRet
    /\ proxies = <<>>
    /\ got = [k \in Ids |-> [vals |-> {}, n |-> 0]]
    /\ ncalls = <<>>
    /\ nops = 0
    /\ threads = <<>>
    /\ lock = [on |-> FALSE, owner |-> 0]

Next ==
    \/ \E r \in Registrations : Add(r.factory, r.key, r.token)
    \/ \E Key \in Ids, singleton \in BOOLEAN, params \in Params : TopGet(Key, singleton, params)
    \/ \E op \in {"get", "set"} : TopUse(op)
    \/ \E o \in DOMAIN heap, op \in {"get", "set"} : TopUseDep(o, op)
    \/ GetReturn67
    \/ GetStore100
    \/ FactoryStart
    \/ FactoryResume
    \/ TrapResume

Spec == Init /\ [][Next]_vars

\* the steps the engine takes by itself while a call is in progress
Step ==
    \/ GetReturn67
    \/ GetStore100
    \/ FactoryStart
    \/ FactoryResume
    \/ TrapResume

\* The cycle of the README: A's factory resolves B, B's factory resolves A.
CycleRegistrations == { Reg("depB", "A", NoId), Reg("depA", "B", NoId) }

CycleNext ==
    \/ \E r \in CycleRegistrations : Add(r.factory, r.key, r.token)
    \/ \E Key \in Ids, singleton \in BOOLEAN, params \in Params : TopGet(Key, singleton, params)
    \/ \E o \in DOMAIN heap, op \in {"get", "set"} : TopUseDep(o, op)
    \/ GetReturn67
    \/ GetStore100
    \/ FactoryStart
    \/ FactoryResume
    \/ TrapResume

\* JavaScript runs a call to completion: a step that can be taken is taken
CycleSpec == Init /\ [][CycleNext]_vars /\ WF_vars(Step)

\* ---------------------------------------------- multi-threaded adaptation
\* Several threads call injector.get(A) with default options on one
\* StoreItem whose factory resolves nothing (so no cycle exists), and are
\* interleaved between the statements of Injector.get.  With lock.on the
\* statements from the read of `initialized` to the write of `instance` are
\* one critical section per StoreItem; without it they interleave freely.
Threads == 1..MaxThreads
RaceItem == 1

Thread(pc, val) == [pc |-> pc, val |-> val]

\* the critical section is free for thread t to enter
LockFree(t) == lock.on => lock.owner = 0
Acquire(t) == IF lock.on THEN [lock EXCEPT !.owner = t] ELSE lock
Release(t) == IF lock.on THEN [lock EXCEPT !.owner = 0] ELSE lock

\* thread t calls injector.get(A) and finds the StoreItem
RaceCall(t) ==
    /\ threads[t].pc = "idle"
    /\ Lookup("A") = RaceItem
    /\ LockFree(t)
    /\ lock' = Acquire(t)
    /\ threads' = [threads EXCEPT ![t].pc = "L69"]
    /\ UNCHANGED <<registry, items, heap, stack, ret, proxies, got, ncalls, nops>>

\* if (storeItem.initialized): return the instance, or a new Proxy when the
\* slot is empty; otherwise go on to construct
RaceRead(t) ==
    /\ threads[t].pc = "L69"
    /\ IF ~IsInitialized(RaceItem) THEN
           /\ threads' = [threads EXCEPT ![t].pc = "L98"]
           /\ UNCHANGED <<proxies, lock>>
       ELSE IF Truthy(items[RaceItem].instance) THEN
           /\ threads' = [threads EXCEPT ![t] = Thread("done", items[RaceItem].instance)]
           /\ lock' = Release(t)
           /\ UNCHANGED proxies
       ELSE
           /\ proxies' = Append(proxies, [key |-> "A", p |-> Undefined])
           /\ threads' = [threads EXCEPT ![t] = Thread("done", Pxy("A", Len(proxies) + 1))]
           /\ lock' = Release(t)
    /\ UNCHANGED <<registry, items, heap, stack, ret, got, ncalls, nops>>

\* storeItem.initialized = true
RaceMark(t) ==
    /\ threads[t].pc = "L98"
    /\ items' = MarkInitialized(RaceItem)
    /\ threads' = [threads EXCEPT ![t].pc = "L100"]
    /\ UNCHANGED <<registry, heap, stack, ret, proxies, got, ncalls, nops, lock>>

\* storeItem.factory(this, params): the factory builds a new object
RaceInvoke(t) ==
    /\ threads[t].pc = "L100"
    /\ heap' = Append(heap, [by |-> RaceItem, params |-> NoParams,
                             dep |-> Undefined, p |-> Undefined])
    /\ ncalls' = [ncalls EXCEPT ![RaceItem] = @ + 1]
    /\ threads' = [threads EXCEPT ![t] = Thread("L100s", Obj(Len(heap) + 1))]
    /\ UNCHANGED <<registry, items, stack, ret, proxies, got, nops, lock>>

\* storeItem.instance = <factory result>; return storeItem.instance
RaceStore(t) ==
    /\ threads[t].pc = "L100s"
    /\ items' = [items EXCEPT ![RaceItem].instance = threads[t].val]
    /\ threads' = [threads EXCEPT ![t] = Thread("done", threads[t].val)]
    /\ lock' = Release(t)
    /\ UNCHANGED <<registry, heap, stack, ret, proxies, got, ncalls, nops>>

\* injector.add(() => new A(), A) has been called; no get has started yet
RaceInit ==
    /\ registry = RegistrySet([k \in Ids |-> 0], "A", NoId, RaceItem)
    /\ items = << NewStoreItem("leaf") >>
    /\ heap = <<>>
    /\ stack = <<>>
    /\ ret = NoRet
    /\ proxies = <<>>
    /\ got = [k \in Ids |-> [vals |-> {}, n |-> 0]]
    /\ ncalls = <<0>>
    /\ nops = 0
    /\ threads = [t \in Threads |-> Thread("idle", Undefined)]
    /\ lock \in { [on |-> b, owner |-> 0] : b \in BOOLEAN }

RaceNext ==
    \/ \E t \in Threads : RaceCall(t)
    \/ \E t \in Threads : RaceRead(t)
    \/ \E t \in Threads : RaceMark(t)
    \/ \E t \in Threads : RaceInvoke(t)
    \/ \E t \in Threads : RaceStore(t)

RaceSpec == RaceInit /\ [][RaceNext]_vars

\* ------------------------------------------------------------------ claims
\* the values other than deferred references that default gets of k returned
RealVals(k) == { v \in got[k].vals : v.kind # "proxy" }

\* the StoreItem registered under k has an object as its instance
Ready(k) == registry[k] # 0 /\ items[registry[k]].instance.kind = "object"

\* C1 as stated: any two default-option gets of an identifier, made since it
\* was last registered, returned the same value, wherever the calls were made
\* from (read here for the factories that return a new object).
C1_AnyTwoGetsSame ==
    \A k \in Ids :
        (registry[k] # 0 /\ FactoryDef(items[registry[k]].factory).result = "object")
            => Cardinality(got[k].vals) <= 1

\* C1: every default-option get of an identifier that returned anything but a
\* deferred reference returned the instance of the identifier's StoreItem, so
\* any two such gets returned the same value; deferred references, handed out
\* while the instance slot is empty, are the only other results.
C1_GetsReturnTheInstance ==
    \A k \in Ids : registry[k] # 0 => RealVals(k) \subseteq {items[registry[k]].instance}

C1_Witness ==
    \E k \in Ids :
        /\ stack = <<>> /\ Ready(k)
        /\ got[k].n >= 2
        /\ got[k].vals = {items[registry[k]].instance}

\* the top-level get of A has just invoked A's factory, with B registered and
\* not yet resolved
CycleStarted ==
    /\ Len(stack) = 2
    /\ stack[1].fn = "get" /\ stack[1].key = "A" /\ stack[1].pc = "L100"
    /\ stack[2].pc = "start"
    /\ items[registry["A"]].factory = "depB"
    /\ registry["B"] # 0
    /\ items[registry["B"]].factory = "depA"
    /\ ~items[registry["B"]].initialized

\* that get has returned the constructed A and both StoreItems hold an object
CycleDone ==
    /\ stack = <<>>
    /\ ret.mode = "return" /\ ret.val.kind = "object"
    /\ Ready("A") /\ Ready("B")
    /\ ret.val = items[registry["A"]].instance
    /\ ncalls[registry["A"]] = 1 /\ ncalls[registry["B"]] = 1

\* C2: with the cycle registered, get(A) is followed by its return of the
\* constructed A with both StoreItems populated and each factory invoked
\* once; and whenever a deferred reference forwards an access, the object it
\* acts on is at that moment the instance of the StoreItem registered under
\* the reference's Key.
C2_CycleResolves ==
    /\ CycleStarted ~> CycleDone
    /\ [][(ret.fwd = 0 /\ ret'.fwd # 0) =>
            /\ registry'[ret'.fkey] # 0
            /\ items'[registry'[ret'.fkey]].instance = Obj(ret'.fwd)]_vars

\* after the cycle was built, B's deferred reference to A has forwarded an
\* access to the real A
C2_Witness ==
    /\ stack = <<>>
    /\ Ready("A") /\ Ready("B")
    /\ heap[items[registry["A"]].instance.ref].dep = items[registry["B"]].instance
    /\ heap[items[registry["B"]].instance.ref].dep.kind = "proxy"
    /\ ret.fkey = "A" /\ Obj(ret.fwd) = items[registry["A"]].instance

\* C3: an add with a token binds key and token to the one new StoreItem; for
\* a key and a token bound to the same StoreItem, every instance that
\* default-option gets of either have returned is that StoreItem's instance,
\* and the factory was invoked once for all of them.
C3_AliasSharesItem ==
    /\ [][\A r \in Registrations :
            (r.token # NoId /\ Add(r.factory, r.key, r.token)) =>
                /\ registry'[r.key] = Len(items) + 1
                /\ registry'[r.token] = Len(items) + 1]_vars
    /\ [](\A k \in Ctors, t \in Tokens :
            (registry[k] # 0 /\ registry[k] = registry[t]) =>
                /\ (RealVals(k) \cup RealVals(t)) \subseteq {items[registry[k]].instance}
                /\ ncalls[registry[k]] <= 1
                /\ (RealVals(k) \cup RealVals(t) # {} => ncalls[registry[k]] = 1))

C3_Witness ==
    \E k \in Ctors, t \in Tokens :
        /\ stack = <<>>
        /\ registry[k] # 0 /\ registry[k] = registry[t] /\ Ready(k)
        /\ got[k].n >= 1 /\ got[t].n >= 1
        /\ got[k].vals = got[t].vals
        /\ ncalls[registry[k]] = 1

\* a transient get (singleton: false) is about to return what its factory
\* has just returned
TransientReturns == Returned /\ Top.fn = "get" /\ Top.pc = "L67"

\* C4: a transient get always has its StoreItem's factory running above it,
\* and returns exactly what that invocation returned: never a deferred
\* reference, and, when the factory builds objects, the object built last,
\* by this StoreItem's factory, which is no StoreItem's instance.
C4_TransientFresh ==
    /\ [](\A j \in DOMAIN stack :
            (stack[j].fn = "get" /\ stack[j].pc = "L67") =>
                IF j < Len(stack)
                  THEN stack[j + 1].fn = "factory" /\ stack[j + 1].item = stack[j].item
                  ELSE Returned)
    /\ [][TransientReturns =>
            /\ ret'.mode = "return" /\ ret'.val = ret.val
            /\ ret'.val.kind = FactoryDef(items[Top.item].factory).result
            /\ ret'.val.kind = "object" =>
                  /\ ret'.val.ref = Len(heap) /\ ret'.val.ref > Top.h0
                  /\ heap[ret'.val.ref].by = Top.item
                  /\ \A i \in DOMAIN items : items'[i].instance # ret'.val]_vars

\* a transient get of a StoreItem that is under construction returns
C4_Witness ==
    /\ TransientReturns
    /\ items[Top.item].initialized /\ items[Top.item].instance = Null
    /\ \E j \in DOMAIN stack : stack[j].pc = "L100" /\ stack[j].item = Top.item
    /\ ret.val.kind = "object"

\* C5 as stated: when a transient get returns, its StoreItem's initialized
\* flag and instance slot are as they were when the get was called, for every
\* factory.
C5_TransientLeavesItem ==
    TransientReturns =>
        /\ items[Top.item].initialized = Top.init0
        /\ items[Top.item].instance = Top.inst0

\* C5: a transient get writes neither field of its StoreItem: throughout the
\* call they are as on entry, unless a default-option get nested in the
\* call has invoked the factory for that (until then uninitialized)
\* StoreItem, and the return itself changes no StoreItem.
C5_TransientWritesNothing ==
    /\ [](\A j \in DOMAIN stack :
            (stack[j].fn = "get" /\ stack[j].pc = "L67") =>
                LET f == stack[j] IN
                IF ncalls[f.item] = f.n0
                  THEN /\ items[f.item].initialized = f.init0
                       /\ items[f.item].instance = f.inst0
                  ELSE ~f.init0 /\ items[f.item].initialized)
    /\ [][TransientReturns => items' = items]_vars

\* a top-level transient get of a ready StoreItem returns a new object
C5_Witness ==
    /\ TransientReturns /\ Len(stack) = 1
    /\ Top.init0 /\ Top.inst0.kind = "object"
    /\ items[Top.item].instance = Top.inst0
    /\ ret.val.kind = "object" /\ ret.val # Top.inst0

\* C6: a get that invokes the factory, from the application or from inside
\* a factory or trap, hands it the params of its own options, absent when
\* none were given.
C6_ParamsPassed ==
    /\ [](\A j \in DOMAIN stack :
            stack[j].fn = "factory" =>
                /\ j > 1 /\ stack[j - 1].fn = "get"
                /\ stack[j - 1].item = stack[j].item
                /\ stack[j].params = stack[j - 1].params)
    /\ [][\A Key \in Ids, singleton \in BOOLEAN, params \in Params :
            (TopGet(Key, singleton, params) /\ stack' # <<>>) =>
                /\ stack'[1].params = params
                /\ stack'[2].fn = "factory" /\ stack'[2].params = params]_vars

C6_Witness ==
    /\ Len(stack) = 2
    /\ stack[1].fn = "get" /\ ~stack[1].singleton /\ stack[1].params = "P1"
    /\ stack[2].fn = "factory" /\ stack[2].params = "P1"

\* what a "not registered" error has to say about identifier Key
NamesKey(Key) ==
    CASE Key = "A" -> "class A is not registered"
      [] Key = "B" -> "class B is not registered"
      [] Key \in Tokens -> "Token MyToken is not registered"

\* C7: a get of an identifier with no registry entry, whatever its options,
\* made by the application or by a factory, throws "not registered" naming
\* the identifier, invokes no factory and changes no StoreItem nor the
\* registry.
C7_UnregisteredLookup ==
    [][\A Key \in Ids :
        (/\ registry[Key] = 0
         /\ \/ \E singleton \in BOOLEAN, params \in Params : TopGet(Key, singleton, params)
            \/ /\ FactoryStart
               /\ FactoryDef(items[Top.item].factory).dep = Key
               /\ ~Overflows(stack, 1))
        => /\ stack' = <<>>
           /\ ret'.mode = "throw" /\ ret'.err = "NotRegistered"
           /\ ret'.msg = NamesKey(Key)
           /\ UNCHANGED <<registry, items, heap, proxies, ncalls>>]_vars

\* a token that was never registered has been looked up
C7_Witness ==
    /\ stack = <<>>
    /\ ret.mode = "throw" /\ ret.err = "NotRegistered"
    /\ ret.msg = "Token MyToken is not registered"
    /\ \A t \in Tokens : registry[t] = 0

\* C8 as stated: a use of a deferred reference that has failed while the
\* StoreItem of its Key holds no object has failed with "instance not found".
C8_UseFailsWithInstanceNotFound ==
    (stack = <<>> /\ ret.mode = "throw" /\ ret.fkey # NoId /\ ~Ready(ret.fkey))
        => ret.err = "InstanceNotFound"

\* C9: an add without a token binds the key to a new StoreItem (not
\* initialized, no instance, the factory given) and changes nothing else: no
\* other registry entry, a token of the replaced StoreItem included, and no
\* existing StoreItem; and the instance a StoreItem holds was built by that
\* StoreItem's own factory.
C9_AddOverwritesKeyOnly ==
    /\ [][\A r \in Registrations :
            (r.token = NoId /\ Add(r.factory, r.key, r.token)) =>
                /\ registry'[r.key] = Len(items) + 1
                /\ items'[Len(items) + 1] =
                     [initialized |-> FALSE, factory |-> r.factory, instance |-> Null]
                /\ \A k \in Ids \ {r.key} : registry'[k] = registry[k]
                /\ \A i \in DOMAIN items : items'[i] = items[i]]_vars
    /\ [](\A i \in DOMAIN items :
            /\ Truthy(items[i].instance) =>
                 items[i].instance.kind = FactoryDef(items[i].factory).result
            /\ items[i].instance.kind = "object" =>
                 heap[items[i].instance.ref].by = i)

\* A was registered with token T1 and resolved, then registered again alone
\* and resolved again: A and T1 no longer share a StoreItem
C9_Witness ==
    /\ stack = <<>>
    /\ registry["A"] # 0 /\ registry["T1"] # 0 /\ registry["A"] # registry["T1"]
    /\ items[registry["T1"]].factory = "leaf" /\ Ready("T1")
    /\ items[registry["A"]].factory = "str"
    /\ ret = Return(Str) /\ items[registry["A"]].instance = Str

\* C10: a get of a token that has no registry entry of its own throws "not
\* registered" even when another token with the same description is
\* registered; and the instances that gets of a registered token return are
\* those of the token's own StoreItem.
C10_TokensByIdentity ==
    /\ [][\A t \in Tokens, singleton \in BOOLEAN, params \in Params :
            (registry[t] = 0 /\ TopGet(t, singleton, params)) =>
                stack' = <<>> /\ ret'.mode = "throw" /\ ret'.err = "NotRegistered"]_vars
    /\ [](\A t \in Tokens :
            registry[t] # 0 => RealVals(t) \subseteq {items[registry[t]].instance})

\* T1 is registered, T2 (same description) is not, and a get has failed as
\* not registered: it can only have been the get of T2
C10_Witness ==
    /\ stack = <<>>
    /\ registry["T1"] # 0 /\ registry["T2"] = 0
    /\ Desc("T1") = Desc("T2")
    /\ ret.mode = "throw" /\ ret.err = "NotRegistered"
    /\ ret.msg = "Token MyToken is not registered"

\* the frames of default-option gets that are waiting for the factory of
\* StoreItem i
Constructing(i) ==
    { j \in DOMAIN stack : stack[j].fn = "get" /\ stack[j].pc = "L100" /\ stack[j].item = i }

\* C11: default-option gets invoke the factory of a StoreItem at most once,
\* whatever the factories resolve (themselves, each other): while a
\* default-option get waits for the factory the StoreItem is already
\* initialized, and no second such get of the same StoreItem is on the stack.
C11_OneConstruction ==
    \A i \in DOMAIN items :
        /\ ncalls[i] <= 1
        /\ Cardinality(Constructing(i)) <= 1
        /\ Constructing(i) # {} => items[i].initialized /\ ncalls[i] = 1

\* A's factory resolves A itself: the re-entrant get has returned a deferred
\* reference to the factory, which A's first get is still waiting for
C11_Witness ==
    /\ Len(stack) = 2 /\ Returned
    /\ stack[1].fn = "get" /\ stack[1].pc = "L100" /\ stack[1].key = "A"
    /\ stack[2].fn = "factory" /\ stack[2].item = stack[1].item
    /\ FactoryDef(items[stack[1].item].factory).dep = "A"
    /\ registry["A"] = stack[1].item
    /\ ret.val.kind = "proxy" /\ ret.val.key = "A"
    /\ ncalls[stack[1].item] = 1

\* C12: a StoreItem only moves forward: an instance slot that is not empty
\* implies the flag is set; no step removes a StoreItem, changes its factory,
\* clears its flag, or empties or replaces an instance slot that is not empty.
C12_ForwardOnly ==
    /\ [](\A i \in DOMAIN items : items[i].instance # Null => items[i].initialized)
    /\ [][\A i \in DOMAIN items :
            /\ i \in DOMAIN items'
            /\ items'[i].factory = items[i].factory
            /\ items[i].initialized => items'[i].initialized
            /\ items[i].instance # Null => items'[i].instance = items[i].instance]_vars

\* in the middle of a cycle: one StoreItem is under construction (flag set,
\* slot empty, its get waiting), another has just become ready
C12_Witness ==
    \E i, j \in DOMAIN items :
        /\ Constructing(i) # {}
        /\ items[i].initialized /\ items[i].instance = Null
        /\ items[j].initialized /\ items[j].instance.kind = "object"
        /\ FactoryDef(items[j].factory).dep # NoId
        /\ ret = Return(items[j].instance)

\* C13 as stated: whenever a default-option get has just returned a deferred
\* reference, the factory of the StoreItem it was made for is running in a
\* frame of the stack the get returned to; so a get made by the application,
\* on an empty stack, returns none.
C13_DeferredOnlyInCycle ==
    (ret.mode = "return" /\ ret.val.kind = "proxy") =>
        \E j \in DOMAIN stack :
            stack[j].fn = "factory" /\ stack[j].item = registry[ret.val.key]

\* C14 as stated: when a write of property p through a deferred reference
\* has been forwarded (the real instance exists), the value is stored on the
\* real instance, and no deferred reference holds a field of its own.
C14_SetReachesInstance ==
    (ret.mode = "return" /\ ret.val = True /\ ret.fwd # 0) =>
        /\ heap[ret.fwd].p = Str
        /\ \A r \in DOMAIN proxies : proxies[r].p = Undefined

\* what the threads that have returned from get(A) were handed
Handed == { threads[t].val : t \in { u \in Threads : threads[u].pc = "done" } }

\* C15: when the statements of get, from the read of `initialized` to the
\* write of `instance`, are one critical section per StoreItem, the threads
\* invoke the factory at most once, are all handed the one instance and
\* none a deferred reference (the witness shows that without the lock the
\* factory is invoked twice, two instances are handed out, and a thread is
\* handed a deferred reference although the factory resolves nothing).
C15_AtomicOnce ==
    lock.on =>
        /\ ncalls[RaceItem] <= 1
        /\ Cardinality(Handed) <= 1
        /\ \A v \in Handed : v.kind = "object" /\ v = items[RaceItem].instance
        /\ \A t \in Threads : threads[t].pc \notin {"idle", "done"} => lock.owner = t

\* no lock: all threads have returned, the factory ran twice, two of them
\* hold different objects and the third a deferred reference
C15_Witness ==
    /\ ~lock.on
    /\ \A t \in Threads : threads[t].pc = "done"
    /\ ncalls[RaceItem] = 2
    /\ FactoryDef(items[RaceItem].factory).dep = NoId
    /\ \E v, w \in Handed : v.kind = "object" /\ w.kind = "object" /\ v # w
    /\ \E v \in Handed : v.kind = "proxy"

\* C16: no step unbinds a registered identifier; the registry changes only
\* in a step of Injector.add; and a step that throws "not registered" is a
\* get, made by the application or by a factory, of an identifier that has
\* no registry entry, never a re-resolve made by a deferred reference: so
\* an identifier that was found once is found by every later get.
C16_RegistryOnlyGrows ==
    /\ [][\A k \in Ids : registry[k] # 0 => registry'[k] # 0]_vars
    /\ [][registry' # registry =>
            \E r \in Registrations : Add(r.factory, r.key, r.token)]_vars
    /\ [][(registry' = registry /\ ret'.mode = "throw" /\ ret'.err = "NotRegistered") =>
            \E Key \in Ids :
                /\ registry[Key] = 0
                /\ ret'.msg = NamesKey(Key)
                /\ \/ \E singleton \in BOOLEAN, params \in Params :
                         TopGet(Key, singleton, params)
                   \/ FactoryStart /\ FactoryDef(items[Top.item].factory).dep = Key]_vars
    /\ [](\A r \in DOMAIN proxies : registry[proxies[r].key] # 0)

\* A was resolved, then a get of the unregistered B failed: A is still bound
\* to the StoreItem that holds its instance
C16_Witness ==
    /\ stack = <<>>
    /\ Ready("A") /\ got["A"].n >= 1
    /\ registry["B"] = 0
    /\ ret.mode = "throw" /\ ret.err = "NotRegistered" /\ ret.msg = NamesKey("B")

\* StoreItem i has its flag set and its slot empty, and no get is waiting
\* for its factory
Abandoned(i) ==
    /\ items[i].initialized /\ items[i].instance = Null
    /\ Constructing(i) = {}

\* C17: when an error unwinds a default-option get that is waiting for the
\* factory, the whole stack unwinds with it and the StoreItem keeps its flag
\* set and its slot empty; such a StoreItem stays so for good and its
\* factory is not invoked by default-option gets again; and a
\* default-option get of it, by the application or by a factory, returns a
\* new deferred reference.
C17_FailedNotRetried ==
    /\ [][\A i \in DOMAIN items :
            (Constructing(i) # {} /\ ret'.mode = "throw") =>
                /\ stack' = <<>>
                /\ items'[i].initialized /\ items'[i].instance = Null]_vars
    /\ [][\A i \in DOMAIN items :
            Abandoned(i) =>
                /\ items'[i] = items[i]
                /\ ncalls'[i] = ncalls[i]
                /\ \A j \in DOMAIN stack' :
                      ~(stack'[j].pc = "L100" /\ stack'[j].item = i)]_vars
    /\ [][\A Key \in Ids :
            (/\ registry[Key] # 0
             /\ Abandoned(registry[Key])
             /\ \/ \E params \in Params : TopGet(Key, TRUE, params)
                \/ /\ FactoryStart
                   /\ FactoryDef(items[Top.item].factory).dep = Key
                   /\ FactoryDef(items[Top.item].factory).depSingleton
                   /\ ~Overflows(stack, 1))
            => /\ ret' = Return(Pxy(Key, Len(proxies) + 1))
               /\ Len(proxies') = Len(proxies) + 1
               /\ Len(stack') = Len(stack)]_vars

\* A's factory failed (it resolves B, which is not registered); a later
\* get(A) by the application has returned a deferred reference and the
\* factory was not invoked again
C17_Witness ==
    /\ stack = <<>>
    /\ registry["A"] # 0 /\ registry["B"] = 0
    /\ FactoryDef(items[registry["A"]].factory).dep = "B"
    /\ Abandoned(registry["A"])
    /\ ncalls[registry["A"]] = 1
    /\ ret.mode = "return" /\ ret.val.kind = "proxy" /\ ret.val.key = "A"
    /\ got["A"].vals = {ret.val}

\* C18: a default-option get of an initialized StoreItem invokes no factory
\* whatever params it is given, and returns the stored instance or a
\* deferred reference; the object a StoreItem stores keeps the params of the
\* get that constructed it; and the get a trap makes carries no params, so
\* the factory it may invoke is given none.
C18_ParamsOnlyWhenConstructing ==
    /\ [][\A Key \in Ids, params \in Params :
            (/\ registry[Key] # 0
             /\ items[registry[Key]].initialized
             /\ TopGet(Key, TRUE, params))
            => /\ stack' = <<>> /\ ncalls' = ncalls /\ items' = items
               /\ ret'.mode = "return"
               /\ IF Truthy(items[registry[Key]].instance)
                    THEN ret'.val = items[registry[Key]].instance
                    ELSE ret'.val.kind = "proxy"]_vars
    /\ [][(GetStore100 /\ ret.val.kind = "object"
                       /\ FactoryDef(items[Top.item].factory).keep)
            => heap[ret.val.ref].params = Top.params]_vars
    /\ [](\A j \in DOMAIN stack :
            (stack[j].fn = "trap" /\ j < Len(stack) /\ stack[j + 1].fn = "get") =>
                /\ stack[j + 1].singleton
                /\ stack[j + 1].params = NoParams
                /\ j + 2 \in DOMAIN stack => stack[j + 2].params = NoParams)

\* A deferred reference to A is used after A was registered again: its
\* trap's get constructs the new StoreItem and the factory is given no
\* params
C18_Witness ==
    /\ Len(stack) = 3
    /\ stack[1].fn = "trap" /\ stack[1].key = "A"
    /\ stack[2].fn = "get" /\ stack[2].pc = "L100" /\ stack[2].key = "A"
    /\ stack[3].fn = "factory" /\ stack[3].item = registry["A"]
    /\ FactoryDef(items[stack[3].item].factory).keep
    /\ stack[3].params = NoParams

====
